---- MODULE Spec2Model ----
(***************************************************************************)
(* Model of the two programs of mesh-ai-node:                              *)
(*   - the server node (src/main.rs): dials a relay or listens directly,   *)
(*     then serves PromptRequests by calling the Ollama backend;           *)
(*   - the client (src/examples/ping.rs): dials a target, sends one        *)
(*     PromptRequest, and exits on the first PromptResponse.               *)
(* Each program is one event loop over swarm events.  The swarm itself     *)
(* (libp2p) is the environment: it picks the next event.                   *)
(***************************************************************************)
EXTENDS Integers, Sequences, FiniteSets, TLC

-----------------------------------------------------------------------------
(* Bounds of the model *)

\* PromptRequests the server accepts in one run
MaxRequests == 2
\* listen_on calls the server makes on the relay circuit in one run
MaxListens == 2
\* connections open to one peer at the same time (client)
MaxConns == 2

-----------------------------------------------------------------------------
(* Values *)

\* Option<T>: None, or Some(x); o[1] is the x of a Some
None == <<>>
Some(x) == <<x>>

\* PeerIds that occur: a relay, the server node, some other peer
PeerIds == {"P_R", "P_B", "P_C"}

\* Texts a backend can generate
Texts == {"2"}

\* Response texts a PromptResponse can carry to the client; a text is a
\* sequence of its parts
ResponseTexts == {<<r>> : r \in Texts} \cup {<<"No response">>}

\* The prompt of the client (ping.rs:84)
ClientPrompt == "whats 1 + 1"

Prompts == {ClientPrompt}

-----------------------------------------------------------------------------
(* Multiaddr: a sequence of Protocol components.  An address string is     *)
(* modelled by its "/"-separated segments.                                 *)

Protocol(t, v) == [t |-> t, v |-> v]

\* Protocol::P2pCircuit
P2pCircuit == Protocol("p2p-circuit", "")

\* Whether v is a valid value of protocol t
ValidValue(t, v) ==
    CASE t = "ip4" -> v \in {"127.0.0.1", "0.0.0.0"}
      [] t = "tcp" -> v \in {"0", "4001"}
      [] t = "p2p" -> v \in PeerIds
      [] OTHER -> FALSE

\* str.parse::<Multiaddr>(): Ok(addr) or Err
RECURSIVE ParseMultiaddr(_)
ParseMultiaddr(s) ==
    IF s = <<>> THEN [ok |-> TRUE, addr |-> <<>>]
    ELSE IF Head(s) = "p2p-circuit"
    THEN LET r == ParseMultiaddr(Tail(s))
         IN  [ok |-> r.ok, addr |-> IF r.ok THEN <<P2pCircuit>> \o r.addr ELSE <<>>]
    ELSE IF Head(s) \in {"ip4", "tcp", "p2p"} /\ Len(s) >= 2 /\ ValidValue(Head(s), s[2])
    THEN LET r == ParseMultiaddr(Tail(Tail(s)))
         IN  [ok |-> r.ok,
              addr |-> IF r.ok THEN <<Protocol(Head(s), s[2])>> \o r.addr ELSE <<>>]
    ELSE [ok |-> FALSE, addr |-> <<>>]

\* The P2p peer ids of an address, in order
RECURSIVE P2pIds(_)
P2pIds(addr) ==
    IF addr = <<>> THEN <<>>
    ELSE IF Head(addr).t = "p2p" THEN <<Head(addr).v>> \o P2pIds(Tail(addr))
    ELSE P2pIds(Tail(addr))

\* relay_addr.iter().find_map(P2p): the first peer id of the address
relay_peer_id_from_addr(addr) ==
    IF P2pIds(addr) = <<>> THEN None ELSE Some(Head(P2pIds(addr)))

\* The peer id taken with next() in place of last(): the first of the address
LastP2p_First(addr) ==
    IF P2pIds(addr) = <<>> THEN None ELSE Some(Head(P2pIds(addr)))

\* target_addr.iter().filter_map(P2p).last(): the last peer id of the address
LastP2p(addr) ==
    IF P2pIds(addr) = <<>> THEN None ELSE Some(P2pIds(addr)[Len(P2pIds(addr))])

\* The listen address of the direct mode, as written in main.rs
DirectListenStr == <<"ip4", "0.0.0.0", "tcp", "0">>

\* --relay-address values tried: absent, a relay address, an address with no
\* peer id, a circuit address with two peer ids, and two malformed strings
ServerArgs ==
    { None,
      Some(<<"ip4", "127.0.0.1", "tcp", "4001", "p2p", "P_R">>),
      Some(<<"ip4", "127.0.0.1", "tcp", "4001">>),
      Some(<<"ip4", "127.0.0.1", "tcp", "4001", "p2p", "P_R", "p2p-circuit", "p2p", "P_C">>),
      Some(<<"ip4", "127.0.0.1", "tcp">>),
      Some(<<"ip4", "127.0.0.1", "p2p", "nobody">>) }

-----------------------------------------------------------------------------
(* The backend: what the HTTP call of call_ollama can come back with *)

Body(t, s) == [t |-> t, s |-> s]

Bodies ==
    { Body("not_json", ""), Body("json_no_response", ""),
      Body("json_response_not_string", "") }
    \cup { Body("json_response_string", r) : r \in Texts }

StatusCodes == {200, 500}

\* Display of a StatusCode
StatusDisplay(code) ==
    IF code = 200 THEN "200 OK" ELSE "500 Internal Server Error"

\* StatusCode::is_success
is_success(code) == code \in 200..299

\* A reply of the HTTP POST: the request could not be sent, or a status and a body
HttpReplies ==
    { [sent |-> FALSE, status |-> 0, body |-> Body("not_json", "")] }
    \cup { [sent |-> TRUE, status |-> c, body |-> b] : c \in StatusCodes, b \in Bodies }

\* Result<String, Box<dyn Error>>; a text is a sequence of its parts
Ok(v) == [ok |-> TRUE, v |-> v]
Err(e) == [ok |-> FALSE, v |-> e]

\* call_ollama without the check of the status (main.rs:156-158 left out)
call_ollama_NoStatusCheck(prompt, reply) ==
    IF ~reply.sent THEN Err(<<"error sending request">>)
    ELSE IF reply.body.t = "not_json" THEN Err(<<"error decoding response body">>)
    ELSE IF reply.body.t = "json_response_string" THEN Ok(<<reply.body.s>>)
    ELSE Ok(<<"No response">>)

\* call_ollama as written, for the reply the HTTP call comes back with
call_ollama(prompt, reply) ==
    IF ~reply.sent THEN Err(<<"error sending request">>)
    ELSE IF ~is_success(reply.status)
    THEN Err(<<"Ollama returned error: ", StatusDisplay(reply.status)>>)
    ELSE IF reply.body.t = "not_json" THEN Err(<<"error decoding response body">>)
    ELSE IF reply.body.t = "json_response_string" THEN Ok(<<reply.body.s>>)
    ELSE Ok(<<"No response">>)

\* The two branches of unwrap_or_else taken the wrong way round
response_text_Swapped(res) ==
    IF res.ok THEN <<"Error calling Ollama: ">> \o res.v ELSE res.v

\* .unwrap_or_else(|e| format!("Error calling Ollama: {e}"))
response_text(res) ==
    IF res.ok THEN res.v ELSE <<"Error calling Ollama: ">> \o res.v

-----------------------------------------------------------------------------
(* The payloads on the wire: PromptRequest and PromptResponse as the records *)
(* serde derives for them, one map with one named field                      *)

PromptRequest(prompt) == [prompt |-> prompt]
PromptResponse(response) == [response |-> response]

\* Serialize of PromptRequest / PromptResponse
EncodeRequest(r) == <<"map", "prompt", r.prompt>>
EncodeResponse(r) == <<"map", "response", r.response>>

\* Deserialize of PromptRequest / PromptResponse
DecodeRequest(b) ==
    IF Len(b) = 3 /\ b[1] = "map" /\ b[2] = "prompt"
    THEN Ok(PromptRequest(b[3])) ELSE Err(<<"decode error">>)
DecodeResponse(b) ==
    IF Len(b) = 3 /\ b[1] = "map" /\ b[2] = "response"
    THEN Ok(PromptResponse(b[3])) ELSE Err(<<"decode error">>)

\* The peer ids of the two nodes when they run together: the server is B
\* (the target of ClientArgs), the client is the peer the server calls P_C
ServerPeerId == "P_B"
ClientPeerId == "P_C"

-----------------------------------------------------------------------------
(* State *)

VARIABLES
    \* ---- server (main.rs)
    s_arg,               \* the --relay-address argument, as given
    s_pc,                \* "start", "loop", "backend" (awaiting call_ollama), "exit_err"
    relay_addr_opt,      \* Option<Multiaddr>
    listening_on_relay,  \* bool
    s_dials,             \* the swarm.dial calls made: sequence of addresses
    s_listens,           \* the swarm.listen_on calls made: [addr, ok]
    accepted,            \* PromptRequests taken from the loop so far
    cur,                 \* the request whose arm is running: Some([id, peer, prompt])
    send_calls,          \* ids of the requests send_response was called for, in order
    last_resp,           \* the last send_response call: Some(record), or None
    s_event,             \* the swarm event handled last ("none" before the loop)
    s_out,               \* the lines the last step printed
    \* ---- client (examples/ping.rs)
    c_arg,               \* the first command-line argument, as given (None: missing)
    c_pc,                \* "start", "loop", "exit_ok", "exit_err"
    target_addr,         \* Multiaddr (None until the let binding)
    target_peer_id,      \* PeerId (None until the let binding)
    prompt_sent,         \* bool
    c_dials,             \* the swarm.dial calls made: sequence of addresses
    sent,                \* the send_request calls made: [peer, prompt]
    req,                 \* the request in the swarm: "none", "pending", "responded", "failed"
    received,            \* Some(response text of the PromptResponse received)
    conns,               \* open connections per peer
    c_event,             \* the swarm event handled last ("none" before the loop)
    c_out,               \* the lines the last step printed
    \* ---- the wire between the two (the /mesh-ai/1.0.0 stream)
    wire_req,            \* Some(encoded PromptRequest) on its way to the server
    wire_resp            \* Some(encoded PromptResponse) on its way to the client

s_vars == <<s_arg, s_pc, relay_addr_opt, listening_on_relay, s_dials, s_listens,
            accepted, cur, send_calls, last_resp, s_event, s_out>>

c_vars == <<c_arg, c_pc, target_addr, target_peer_id, prompt_sent, c_dials, sent, req,
            received, conns, c_event, c_out>>

n_vars == <<wire_req, wire_resp>>

vars == <<s_vars, c_vars, n_vars>>

\* The first argument tried: missing, the server's direct address, the server
\* through a relay, an address with no peer id, and a malformed string
ClientArgs ==
    { None,
      Some(<<"ip4", "127.0.0.1", "tcp", "4001", "p2p", "P_B">>),
      Some(<<"ip4", "127.0.0.1", "tcp", "4001", "p2p", "P_R", "p2p-circuit", "p2p", "P_B">>),
      Some(<<"ip4", "127.0.0.1", "tcp", "4001">>),
      Some(<<"ip4", "tcp", "4001">>) }

\* The server at the start of main, with the client not run
InitServer ==
    /\ s_arg \in ServerArgs
    /\ s_pc = "start"
    /\ relay_addr_opt = None
    /\ listening_on_relay = FALSE
    /\ s_dials = <<>>
    /\ s_listens = <<>>
    /\ accepted = 0
    /\ cur = None
    /\ send_calls = <<>>
    /\ last_resp = None
    /\ s_event = "none"
    /\ s_out = <<>>
    /\ c_arg = None
    /\ c_pc = "start"
    /\ target_addr = None
    /\ target_peer_id = None
    /\ prompt_sent = FALSE
    /\ c_dials = <<>>
    /\ sent = <<>>
    /\ req = "none"
    /\ received = None
    /\ conns = [p \in PeerIds |-> 0]
    /\ c_event = "none"
    /\ c_out = <<>>
    /\ wire_req = None
    /\ wire_resp = None

\* The client at the start of main, with the server not run
InitClient ==
    /\ c_arg \in ClientArgs
    /\ c_pc = "start"
    /\ target_addr = None
    /\ target_peer_id = None
    /\ prompt_sent = FALSE
    /\ c_dials = <<>>
    /\ sent = <<>>
    /\ req = "none"
    /\ received = None
    /\ conns = [p \in PeerIds |-> 0]
    /\ c_event = "none"
    /\ c_out = <<>>
    /\ s_arg = None
    /\ s_pc = "start"
    /\ relay_addr_opt = None
    /\ listening_on_relay = FALSE
    /\ s_dials = <<>>
    /\ s_listens = <<>>
    /\ accepted = 0
    /\ cur = None
    /\ send_calls = <<>>
    /\ last_resp = None
    /\ s_event = "none"
    /\ s_out = <<>>
    /\ wire_req = None
    /\ wire_resp = None

-----------------------------------------------------------------------------
(* Server: startup (main.rs:38-75) *)

\* The startup with the direct listen made in relay mode too (no else)
ServerStart_AlsoListensDirect(call_ok) ==
    /\ s_pc = "start"
    /\ s_event' = "none"
    /\ UNCHANGED <<s_arg, listening_on_relay, accepted, cur, send_calls, last_resp>>
    /\ \/ /\ s_arg # None
          /\ ~ParseMultiaddr(s_arg[1]).ok
          /\ s_pc' = "exit_err"
          /\ s_out' = <<"error: invalid value for --relay-address">>
          /\ UNCHANGED <<relay_addr_opt, s_dials, s_listens>>
       \/ /\ s_arg # None
          /\ ParseMultiaddr(s_arg[1]).ok
          /\ relay_addr_opt' = Some(ParseMultiaddr(s_arg[1]).addr)
          /\ s_dials' = Append(s_dials, relay_addr_opt'[1])
          /\ s_listens' = Append(s_listens,
                                 [addr |-> ParseMultiaddr(DirectListenStr).addr,
                                  ok |-> call_ok])
          /\ s_pc' = IF call_ok THEN "loop" ELSE "exit_err"
          /\ s_out' = <<"Local PeerID", "Connecting to relay">>
                      \o (IF call_ok THEN <<"Node started">> ELSE <<>>)
       \/ /\ s_arg = None
          /\ relay_addr_opt' = None
          /\ s_listens' = Append(s_listens,
                                 [addr |-> ParseMultiaddr(DirectListenStr).addr,
                                  ok |-> call_ok])
          /\ s_pc' = IF call_ok THEN "loop" ELSE "exit_err"
          /\ s_out' = <<"Local PeerID">>
                      \o (IF call_ok THEN <<"Node started">> ELSE <<>>)
          /\ UNCHANGED s_dials

\* Opt::parse fails on an unparseable --relay-address: the process exits before
\* any swarm call.  Otherwise: dial the relay, or listen directly; either call
\* failing ends main with the error ("?").
ServerStart(call_ok) ==
    /\ s_pc = "start"
    /\ s_event' = "none"
    /\ UNCHANGED <<s_arg, listening_on_relay, accepted, cur, send_calls, last_resp>>
    /\ \/ /\ s_arg # None
          /\ ~ParseMultiaddr(s_arg[1]).ok
          /\ s_pc' = "exit_err"
          /\ s_out' = <<"error: invalid value for --relay-address">>
          /\ UNCHANGED <<relay_addr_opt, s_dials, s_listens>>
       \/ /\ s_arg # None
          /\ ParseMultiaddr(s_arg[1]).ok
          /\ relay_addr_opt' = Some(ParseMultiaddr(s_arg[1]).addr)
          /\ s_dials' = Append(s_dials, relay_addr_opt'[1])
          /\ s_pc' = IF call_ok THEN "loop" ELSE "exit_err"
          /\ s_out' = <<"Local PeerID", "Connecting to relay">>
                      \o (IF call_ok THEN <<"Node started">> ELSE <<>>)
          /\ UNCHANGED s_listens
       \/ /\ s_arg = None
          /\ relay_addr_opt' = None
          /\ s_listens' = Append(s_listens,
                                 [addr |-> ParseMultiaddr(DirectListenStr).addr,
                                  ok |-> call_ok])
          /\ s_pc' = IF call_ok THEN "loop" ELSE "exit_err"
          /\ s_out' = <<"Local PeerID">>
                      \o (IF call_ok THEN <<"Node started">> ELSE <<>>)
          /\ UNCHANGED s_dials

-----------------------------------------------------------------------------
(* Server: the event loop (main.rs:77-141) *)

\* The conditions without the look at listening_on_relay
StartsRelayListen_NoFlagCheck(peer_id) ==
    /\ relay_addr_opt # None
    /\ relay_peer_id_from_addr(relay_addr_opt[1]) = Some(peer_id)

\* Whether this ConnectionEstablished event makes the node listen on the relay
StartsRelayListen(peer_id) ==
    /\ relay_addr_opt # None
    /\ ~listening_on_relay
    /\ relay_peer_id_from_addr(relay_addr_opt[1]) = Some(peer_id)

\* The relay address as it is, with no circuit marker appended
listen_addr_NoCircuit == relay_addr_opt[1]

\* relay_addr.clone().with(Protocol::P2pCircuit)
listen_addr == relay_addr_opt[1] \o <<P2pCircuit>>

\* SwarmEvent::ConnectionEstablished, with the listen failure ending main ("?")
ServerConnectionEstablished_ListenErrorExits(peer_id, listen_ok) ==
    /\ s_pc = "loop"
    /\ s_event' = "ConnectionEstablished"
    /\ UNCHANGED <<s_arg, relay_addr_opt, s_dials, accepted, cur, send_calls, last_resp>>
    /\ IF StartsRelayListen(peer_id)
       THEN /\ Len(s_listens) < MaxListens
            /\ s_listens' = Append(s_listens, [addr |-> listen_addr, ok |-> listen_ok])
            /\ listening_on_relay' = IF listen_ok THEN TRUE ELSE listening_on_relay
            /\ s_pc' = IF listen_ok THEN "loop" ELSE "exit_err"
            /\ s_out' = <<"Connection established", peer_id, "Connected to relay">>
       ELSE /\ s_out' = <<"Connection established", peer_id>>
            /\ UNCHANGED <<s_listens, listening_on_relay, s_pc>>

\* SwarmEvent::ConnectionEstablished { peer_id, .. }
ServerConnectionEstablished(peer_id, listen_ok) ==
    /\ s_pc = "loop"
    /\ s_event' = "ConnectionEstablished"
    /\ UNCHANGED <<s_arg, s_pc, relay_addr_opt, s_dials, accepted, cur, send_calls,
                   last_resp>>
    /\ IF StartsRelayListen(peer_id)
       THEN /\ Len(s_listens) < MaxListens
            /\ s_listens' = Append(s_listens, [addr |-> listen_addr, ok |-> listen_ok])
            /\ listening_on_relay' = IF listen_ok THEN TRUE ELSE listening_on_relay
            /\ s_out' = <<"Connection established", peer_id, "Connected to relay">>
                         \o (IF listen_ok THEN <<>> ELSE <<"Failed to listen on relay">>)
       ELSE /\ s_out' = <<"Connection established", peer_id>>
            /\ UNCHANGED <<s_listens, listening_on_relay>>

\* SwarmEvent::NewListenAddr: reported by the swarm for a listener that started
ServerNewListenAddr ==
    /\ s_pc = "loop"
    /\ \E i \in 1..Len(s_listens) : s_listens[i].ok
    /\ s_event' = "NewListenAddr"
    /\ s_out' = <<"Listening on">>
    /\ UNCHANGED <<s_arg, s_pc, relay_addr_opt, listening_on_relay, s_dials, s_listens,
                   accepted, cur, send_calls, last_resp>>

\* Message::Request with the backend call handed to a task of its own: the arm
\* ends and the loop goes on while the call is outstanding
ServerRequest_Spawned(peer, prompt) ==
    /\ s_pc = "loop"
    /\ accepted < MaxRequests
    /\ accepted' = accepted + 1
    /\ cur' = Some([id |-> accepted + 1, peer |-> peer, prompt |-> prompt])
    /\ s_event' = "Request"
    /\ s_out' = <<"Received request">>
    /\ UNCHANGED <<s_arg, s_pc, relay_addr_opt, listening_on_relay, s_dials, s_listens,
                   send_calls, last_resp>>

\* request_response::Message::Request { request, channel }, up to the await of
\* call_ollama: the loop is suspended inside this match arm
ServerRequest(peer, prompt) ==
    /\ s_pc = "loop"
    /\ accepted < MaxRequests
    /\ accepted' = accepted + 1
    /\ cur' = Some([id |-> accepted + 1, peer |-> peer, prompt |-> prompt])
    /\ s_pc' = "backend"
    /\ s_event' = "Request"
    /\ s_out' = <<"Received request">>
    /\ UNCHANGED <<s_arg, relay_addr_opt, listening_on_relay, s_dials, s_listens,
                   send_calls, last_resp>>

\* The rest of the arm with an error of call_ollama dropping the channel unanswered
ServerBackendReturn_NoReplyOnError(reply, send_ok) ==
    /\ s_pc = "backend"
    /\ LET res == call_ollama(cur[1].prompt, reply)
       IN  IF res.ok
           THEN /\ send_calls' = Append(send_calls, cur[1].id)
                /\ last_resp' = Some([id |-> cur[1].id, peer |-> cur[1].peer,
                                  prompt |-> cur[1].prompt, reply |-> reply,
                                  response |-> response_text(res), delivered |-> send_ok])
                /\ s_out' = <<>>
           ELSE /\ s_out' = <<"Ollama error">>
                /\ UNCHANGED <<send_calls, last_resp>>
    /\ cur' = None
    /\ s_pc' = "loop"
    /\ UNCHANGED <<s_arg, relay_addr_opt, listening_on_relay, s_dials, s_listens,
                   accepted, s_event>>

\* The rest of the arm: call_ollama returns, the response text is built and
\* send_response is called on the request's channel; its result is discarded.
\* send_ok is whether the channel was still open (send_response returned Ok).
ServerBackendReturn(reply, send_ok) ==
    /\ s_pc = "backend"
    /\ LET res == call_ollama(cur[1].prompt, reply)
       IN  /\ send_calls' = Append(send_calls, cur[1].id)
           /\ last_resp' = Some([id |-> cur[1].id, peer |-> cur[1].peer,
                             prompt |-> cur[1].prompt, reply |-> reply,
                             response |-> response_text(res), delivered |-> send_ok])
           /\ s_out' = IF res.ok THEN <<>> ELSE <<"Ollama error">>
    /\ cur' = None
    /\ s_pc' = "loop"
    /\ UNCHANGED <<s_arg, relay_addr_opt, listening_on_relay, s_dials, s_listens,
                   accepted, s_event>>

\* SwarmEvent::Behaviour(MyBehaviourEvent::Ping(event)), a success or a failure
ServerPing(result) ==
    /\ s_pc = "loop"
    /\ s_event' = "Ping"
    /\ s_out' = <<"Ping event", result>>
    /\ UNCHANGED <<s_arg, s_pc, relay_addr_opt, listening_on_relay, s_dials, s_listens,
                   accepted, cur, send_calls, last_resp>>

\* SwarmEvent::Behaviour(MyBehaviourEvent::Relay(event))
ServerRelay ==
    /\ s_pc = "loop"
    /\ s_event' = "Relay"
    /\ s_out' = <<"Relay event">>
    /\ UNCHANGED <<s_arg, s_pc, relay_addr_opt, listening_on_relay, s_dials, s_listens,
                   accepted, cur, send_calls, last_resp>>

\* The events of the "_ => {}" arm
ServerIgnoredEvents ==
    { "OutgoingConnectionError", "IncomingConnectionError", "ConnectionClosed",
      "Identify", "InboundFailure", "ResponseSent", "ListenerClosed" }

\* _ => {}
ServerOther(event) ==
    /\ s_pc = "loop"
    /\ s_event' = event
    /\ s_out' = <<>>
    /\ UNCHANGED <<s_arg, s_pc, relay_addr_opt, listening_on_relay, s_dials, s_listens,
                   accepted, cur, send_calls, last_resp>>

\* One turn of the loop: swarm.select_next_some() yields an event and its arm runs
ServerTakesEvent ==
    \/ \E p \in PeerIds, ok \in BOOLEAN : ServerConnectionEstablished(p, ok)
    \/ ServerNewListenAddr
    \/ \E p \in PeerIds, q \in Prompts : ServerRequest(p, q)
    \/ \E r \in {"Ok", "Err"} : ServerPing(r)
    \/ ServerRelay
    \/ \E e \in ServerIgnoredEvents : ServerOther(e)

\* The server program run on its own
NextServer ==
    \/ \E ok \in BOOLEAN : ServerStart(ok) /\ UNCHANGED <<c_vars, n_vars>>
    \/ \E p \in PeerIds, ok \in BOOLEAN :
          ServerConnectionEstablished(p, ok) /\ UNCHANGED <<c_vars, n_vars>>
    \/ ServerNewListenAddr /\ UNCHANGED <<c_vars, n_vars>>
    \/ \E p \in PeerIds, q \in Prompts : ServerRequest(p, q) /\ UNCHANGED <<c_vars, n_vars>>
    \/ \E reply \in HttpReplies, ok \in BOOLEAN :
          ServerBackendReturn(reply, ok) /\ UNCHANGED <<c_vars, n_vars>>
    \/ \E r \in {"Ok", "Err"} : ServerPing(r) /\ UNCHANGED <<c_vars, n_vars>>
    \/ ServerRelay /\ UNCHANGED <<c_vars, n_vars>>
    \/ \E e \in ServerIgnoredEvents : ServerOther(e) /\ UNCHANGED <<c_vars, n_vars>>

SpecServer == InitServer /\ [][NextServer]_vars

-----------------------------------------------------------------------------
(* Client: startup (ping.rs:51-76) *)

\* The startup with the dial made before the target peer id is looked for
ClientStart_DialBeforePeerId(dial_ok) ==
    /\ c_pc = "start"
    /\ c_event' = "none"
    /\ UNCHANGED <<c_arg, prompt_sent, sent, req, received, conns>>
    /\ IF c_arg = None
       THEN /\ c_pc' = "exit_err"
            /\ c_out' = <<"Error: Expected multiaddr as argument">>
            /\ UNCHANGED <<target_addr, target_peer_id, c_dials>>
       ELSE IF ~ParseMultiaddr(c_arg[1]).ok
       THEN /\ c_pc' = "exit_err"
            /\ c_out' = <<"Error: invalid multiaddr">>
            /\ UNCHANGED <<target_addr, target_peer_id, c_dials>>
       ELSE /\ target_addr' = Some(ParseMultiaddr(c_arg[1]).addr)
            /\ c_dials' = Append(c_dials, target_addr'[1])
            /\ target_peer_id' = LastP2p(target_addr'[1])
            /\ c_pc' = IF dial_ok /\ target_peer_id' # None THEN "loop" ELSE "exit_err"
            /\ c_out' = IF dial_ok THEN <<"Dialed">> ELSE <<>>

\* The argument is read and parsed, the target peer id extracted, the target
\* dialed; each failure ends main with the error ("?") before the loop.
ClientStart(dial_ok) ==
    /\ c_pc = "start"
    /\ c_event' = "none"
    /\ UNCHANGED <<c_arg, prompt_sent, sent, req, received, conns>>
    /\ IF c_arg = None
       THEN /\ c_pc' = "exit_err"
            /\ c_out' = <<"Error: Expected multiaddr as argument">>
            /\ UNCHANGED <<target_addr, target_peer_id, c_dials>>
       ELSE IF ~ParseMultiaddr(c_arg[1]).ok
       THEN /\ c_pc' = "exit_err"
            /\ c_out' = <<"Error: invalid multiaddr">>
            /\ UNCHANGED <<target_addr, target_peer_id, c_dials>>
       ELSE IF LastP2p(ParseMultiaddr(c_arg[1]).addr) = None
       THEN /\ target_addr' = Some(ParseMultiaddr(c_arg[1]).addr)
            /\ c_pc' = "exit_err"
            /\ c_out' = <<"Error: No peer ID in target address">>
            /\ UNCHANGED <<target_peer_id, c_dials>>
       ELSE /\ target_addr' = Some(ParseMultiaddr(c_arg[1]).addr)
            /\ target_peer_id' = LastP2p(target_addr'[1])
            /\ c_dials' = Append(c_dials, target_addr'[1])
            /\ c_pc' = IF dial_ok THEN "loop" ELSE "exit_err"
            /\ c_out' = <<"Target peer ID">> \o (IF dial_ok THEN <<"Dialed">> ELSE <<>>)

-----------------------------------------------------------------------------
(* Client: the event loop (ping.rs:78-112) *)

\* SwarmEvent::ConnectionEstablished, sending without looking at prompt_sent
ClientConnectionEstablished_NoSentCheck(peer_id) ==
    /\ c_pc = "loop"
    /\ conns[peer_id] < MaxConns
    /\ conns' = [conns EXCEPT ![peer_id] = @ + 1]
    /\ c_event' = "ConnectionEstablished"
    /\ IF Some(peer_id) = target_peer_id
       THEN /\ sent' = Append(sent, [peer |-> peer_id, prompt |-> ClientPrompt])
            /\ req' = "pending"
            /\ prompt_sent' = TRUE
            /\ c_out' = <<"Connected to", peer_id, "Sending prompt">>
       ELSE /\ c_out' = <<"Connected to", peer_id>>
            /\ UNCHANGED <<sent, req, prompt_sent>>
    /\ UNCHANGED <<c_arg, c_pc, target_addr, target_peer_id, c_dials, received>>

\* SwarmEvent::ConnectionEstablished { peer_id, .. }
ClientConnectionEstablished(peer_id) ==
    /\ c_pc = "loop"
    /\ conns[peer_id] < MaxConns
    /\ conns' = [conns EXCEPT ![peer_id] = @ + 1]
    /\ c_event' = "ConnectionEstablished"
    /\ IF Some(peer_id) = target_peer_id /\ ~prompt_sent
       THEN /\ sent' = Append(sent, [peer |-> peer_id, prompt |-> ClientPrompt])
            /\ req' = "pending"
            /\ prompt_sent' = TRUE
            /\ c_out' = <<"Connected to", peer_id, "Sending prompt">>
       ELSE /\ c_out' = <<"Connected to", peer_id>>
            /\ UNCHANGED <<sent, req, prompt_sent>>
    /\ UNCHANGED <<c_arg, c_pc, target_addr, target_peer_id, c_dials, received>>

\* Message::Response, with the loop going on after the print (no return)
ClientResponse_NoReturn(response) ==
    /\ c_pc = "loop"
    /\ req = "pending"
    /\ req' = "responded"
    /\ received' = Some(response)
    /\ c_event' = "Response"
    /\ c_out' = <<"Received response", response>>
    /\ UNCHANGED <<c_arg, c_pc, target_addr, target_peer_id, prompt_sent, c_dials, sent,
                   conns>>

\* request_response::Message::Response { response, .. }: the swarm delivers it
\* for the request that is pending; main returns Ok(())
ClientResponse(response) ==
    /\ c_pc = "loop"
    /\ req = "pending"
    /\ req' = "responded"
    /\ received' = Some(response)
    /\ c_event' = "Response"
    /\ c_out' = <<"Received response", response>>
    /\ c_pc' = "exit_ok"
    /\ UNCHANGED <<c_arg, target_addr, target_peer_id, prompt_sent, c_dials, sent, conns>>

\* The ways the swarm fails a pending request (request_response::OutboundFailure)
OutboundFailures == {"DialFailure", "Timeout", "ConnectionClosed", "Io"}

\* request_response::Event::OutboundFailure: the swarm resolves the pending
\* request with an error; the event falls into the "_ => {}" arm
ClientOutboundFailure(error) ==
    /\ c_pc = "loop"
    /\ req = "pending"
    /\ req' = "failed"
    /\ c_event' = "OutboundFailure"
    /\ c_out' = <<>>
    /\ UNCHANGED <<c_arg, c_pc, target_addr, target_peer_id, prompt_sent, c_dials, sent,
                   received, conns>>

\* The Ping arm with a ping failure ending main
ClientPing_FailureFatal(result) ==
    /\ c_pc = "loop"
    /\ c_event' = "Ping"
    /\ c_out' = <<"Ping event", result>>
    /\ c_pc' = IF result = "Err" THEN "exit_err" ELSE c_pc
    /\ UNCHANGED <<c_arg, target_addr, target_peer_id, prompt_sent, c_dials, sent,
                   req, received, conns>>

\* SwarmEvent::Behaviour(MyBehaviourEvent::Ping(event)), a success or a failure
ClientPing(result) ==
    /\ c_pc = "loop"
    /\ c_event' = "Ping"
    /\ c_out' = <<"Ping event", result>>
    /\ UNCHANGED <<c_arg, c_pc, target_addr, target_peer_id, prompt_sent, c_dials, sent,
                   req, received, conns>>

\* SwarmEvent::OutgoingConnectionError, with the error only printed (no return)
ClientOutgoingConnectionError_NoReturn(peer_id) ==
    /\ c_pc = "loop"
    /\ c_event' = "OutgoingConnectionError"
    /\ c_out' = <<"Connection error">>
    /\ UNCHANGED <<c_arg, c_pc, target_addr, target_peer_id, prompt_sent, c_dials, sent,
                   req, received, conns>>

\* SwarmEvent::OutgoingConnectionError { error, .. }: main returns Err(error);
\* peer_id is the peer the failed dial was for, or None
ClientOutgoingConnectionError(peer_id) ==
    /\ c_pc = "loop"
    /\ c_event' = "OutgoingConnectionError"
    /\ c_out' = <<"Connection error">>
    /\ c_pc' = "exit_err"
    /\ UNCHANGED <<c_arg, target_addr, target_peer_id, prompt_sent, c_dials, sent, req,
                   received, conns>>

\* SwarmEvent::ConnectionClosed { peer_id, .. }, in the "_ => {}" arm
ClientConnectionClosed(peer_id) ==
    /\ c_pc = "loop"
    /\ conns[peer_id] > 0
    /\ conns' = [conns EXCEPT ![peer_id] = @ - 1]
    /\ c_event' = "ConnectionClosed"
    /\ c_out' = <<>>
    /\ UNCHANGED <<c_arg, c_pc, target_addr, target_peer_id, prompt_sent, c_dials, sent,
                   req, received>>

\* The other events of the "_ => {}" arm
ClientIgnoredEvents == {"Identify", "Relay", "IncomingConnectionError", "Dialing"}

\* _ => {}
ClientOther(event) ==
    /\ c_pc = "loop"
    /\ c_event' = event
    /\ c_out' = <<>>
    /\ UNCHANGED <<c_arg, c_pc, target_addr, target_peer_id, prompt_sent, c_dials, sent,
                   req, received, conns>>

\* One turn of the loop: swarm.select_next_some() yields an event and its arm runs
ClientTakesEvent ==
    \/ \E p \in PeerIds : ClientConnectionEstablished(p)
    \/ \E r \in ResponseTexts : ClientResponse(r)
    \/ \E e \in OutboundFailures : ClientOutboundFailure(e)
    \/ \E r \in {"Ok", "Err"} : ClientPing(r)
    \/ \E p \in {Some(q) : q \in PeerIds} \cup {None} : ClientOutgoingConnectionError(p)
    \/ \E p \in PeerIds : ClientConnectionClosed(p)
    \/ \E e \in ClientIgnoredEvents : ClientOther(e)

\* The client program run on its own
NextClient ==
    \/ \E ok \in BOOLEAN : ClientStart(ok) /\ UNCHANGED <<s_vars, n_vars>>
    \/ \E p \in PeerIds : ClientConnectionEstablished(p) /\ UNCHANGED <<s_vars, n_vars>>
    \/ \E r \in ResponseTexts : ClientResponse(r) /\ UNCHANGED <<s_vars, n_vars>>
    \/ \E e \in OutboundFailures : ClientOutboundFailure(e) /\ UNCHANGED <<s_vars, n_vars>>
    \/ \E r \in {"Ok", "Err"} : ClientPing(r) /\ UNCHANGED <<s_vars, n_vars>>
    \/ \E p \in {Some(q) : q \in PeerIds} \cup {None} : ClientOutgoingConnectionError(p)
          /\ UNCHANGED <<s_vars, n_vars>>
    \/ \E p \in PeerIds : ClientConnectionClosed(p) /\ UNCHANGED <<s_vars, n_vars>>
    \/ \E e \in ClientIgnoredEvents : ClientOther(e) /\ UNCHANGED <<s_vars, n_vars>>

SpecClient == InitClient /\ [][NextClient]_vars

-----------------------------------------------------------------------------
(* The two programs run together: node A runs the client, node B the server, *)
(* and the swarm carries the request and the response between them           *)

\* Both programs at the start of main
Init ==
    /\ s_arg \in ServerArgs
    /\ s_pc = "start"
    /\ relay_addr_opt = None
    /\ listening_on_relay = FALSE
    /\ s_dials = <<>>
    /\ s_listens = <<>>
    /\ accepted = 0
    /\ cur = None
    /\ send_calls = <<>>
    /\ last_resp = None
    /\ s_event = "none"
    /\ s_out = <<>>
    /\ c_arg \in ClientArgs
    /\ c_pc = "start"
    /\ target_addr = None
    /\ target_peer_id = None
    /\ prompt_sent = FALSE
    /\ c_dials = <<>>
    /\ sent = <<>>
    /\ req = "none"
    /\ received = None
    /\ conns = [p \in PeerIds |-> 0]
    /\ c_event = "none"
    /\ c_out = <<>>
    /\ wire_req = None
    /\ wire_resp = None

\* addr goes through a relay
HasCircuit(addr) == \E j \in 1..Len(addr) : addr[j].t = "p2p-circuit"

\* The server can be connected to at the address the client dialed: it
\* listens, directly for a direct address and on a circuit for a relayed one
ServerReachable ==
    /\ s_pc \in {"loop", "backend"}
    /\ target_addr # None
    /\ \E i \in 1..Len(s_listens) :
          /\ s_listens[i].ok
          /\ HasCircuit(s_listens[i].addr) <=> HasCircuit(target_addr[1])

\* The client's ConnectionEstablished; a send_request to the server puts the
\* encoded PromptRequest on the wire
E2EClientConnectionEstablished(p) ==
    /\ p = ServerPeerId => ServerReachable
    /\ ClientConnectionEstablished(p)
    /\ wire_req' = IF sent' # sent /\ p = ServerPeerId
                   THEN Some(EncodeRequest(PromptRequest(sent'[Len(sent')].prompt)))
                   ELSE wire_req
    /\ UNCHANGED <<s_vars, wire_resp>>

\* The server's Message::Request: the request on the wire, decoded
E2EServerRequest ==
    /\ wire_req # None
    /\ DecodeRequest(wire_req[1]).ok
    /\ ServerRequest(ClientPeerId, DecodeRequest(wire_req[1]).v.prompt)
    /\ wire_req' = None
    /\ UNCHANGED <<c_vars, wire_resp>>

\* The server's send_response: with the channel open the encoded
\* PromptResponse goes on the wire
E2EServerBackendReturn(reply, send_ok) ==
    /\ ServerBackendReturn(reply, send_ok)
    /\ wire_resp' = IF send_ok
                    THEN Some(EncodeResponse(PromptResponse(last_resp'[1].response)))
                    ELSE wire_resp
    /\ UNCHANGED <<c_vars, wire_req>>

\* The client's Message::Response: the response on the wire, decoded
E2EClientResponse ==
    /\ wire_resp # None
    /\ DecodeResponse(wire_resp[1]).ok
    /\ ClientResponse(DecodeResponse(wire_resp[1]).v.response)
    /\ wire_resp' = None
    /\ UNCHANGED <<s_vars, wire_req>>

Next ==
    \/ \E ok \in BOOLEAN : ServerStart(ok) /\ UNCHANGED <<c_vars, n_vars>>
    \/ \E ok \in BOOLEAN : ClientStart(ok) /\ UNCHANGED <<s_vars, n_vars>>
    \/ \E p \in PeerIds, ok \in BOOLEAN :
          ServerConnectionEstablished(p, ok) /\ UNCHANGED <<c_vars, n_vars>>
    \/ \E p \in PeerIds : E2EClientConnectionEstablished(p)
    \/ E2EServerRequest
    \/ \E reply \in HttpReplies, ok \in BOOLEAN : E2EServerBackendReturn(reply, ok)
    \/ E2EClientResponse
    \/ \E e \in OutboundFailures : ClientOutboundFailure(e) /\ UNCHANGED <<s_vars, n_vars>>
    \/ \E r \in {"Ok", "Err"} : ServerPing(r) /\ UNCHANGED <<c_vars, n_vars>>
    \/ \E r \in {"Ok", "Err"} : ClientPing(r) /\ UNCHANGED <<s_vars, n_vars>>
    \/ ServerRelay /\ UNCHANGED <<c_vars, n_vars>>
    \/ ClientOther("Relay") /\ UNCHANGED <<s_vars, n_vars>>
    \/ ClientOutgoingConnectionError(None) /\ UNCHANGED <<s_vars, n_vars>>

Spec == Init /\ [][Next]_vars

-----------------------------------------------------------------------------
(* Properties of the client *)

\* C1: the client calls send_request at most once in a run; prompt_sent is
\* false before that send, true after it, is looked at before every send and
\* is never reset, whatever events follow (more connections to the target,
\* connections to other peers, pings).
C1_AtMostOneSend ==
    /\ [](Len(sent) <= 1 /\ (prompt_sent <=> Len(sent) = 1))
    /\ [][ /\ prompt_sent => prompt_sent'
           /\ sent' # sent => /\ ~prompt_sent
                              /\ prompt_sent'
                              /\ Len(sent') = Len(sent) + 1 ]_vars

\* The prompt was sent and a second connection to the target is open
C1_Witness ==
    /\ Len(sent) = 1
    /\ prompt_sent
    /\ c_event = "ConnectionEstablished"
    /\ conns[target_peer_id[1]] >= 2

\* C6 (as claimed): once the request is resolved, with a response or with an
\* error, the client has acted on it and the run has ended; it does not stay in
\* the loop waiting on a request that already failed.
C6_ResolutionEndsRun ==
    req \in {"responded", "failed"} => c_pc \in {"exit_ok", "exit_err"}

\* C7: the first PromptResponse ends the loop with success and nothing is
\* handled after it; the client exits successfully only after it sent the
\* prompt and received a PromptResponse.
C7_ExitOnFirstResponse ==
    /\ [](c_event = "Response" => c_pc = "exit_ok")
    /\ [](c_pc = "exit_ok" => /\ c_event = "Response"
                              /\ prompt_sent
                              /\ Len(sent) = 1
                              /\ req = "responded"
                              /\ received # None)
    /\ [][c_pc = "exit_ok" => UNCHANGED c_vars]_vars

\* The client has exited successfully
C7_Witness ==
    /\ c_pc = "exit_ok"
    /\ received = Some(<<"2">>)

\* C8: an OutgoingConnectionError event, handled in any state, ends the loop
\* with an error, and no PromptRequest is sent after that.
C8_DialFailureFatal ==
    /\ [](c_event = "OutgoingConnectionError" => c_pc = "exit_err")
    /\ [][c_pc = "exit_err" => sent' = sent /\ c_pc' = "exit_err"]_vars

\* An OutgoingConnectionError ended the run after the prompt was sent
C8_Witness ==
    /\ c_event = "OutgoingConnectionError"
    /\ c_pc = "exit_err"
    /\ prompt_sent
    /\ req = "pending"

\* p is the last peer id that occurs in addr
IsLastPeerOf(addr, p) ==
    \E i \in 1..Len(addr) :
        /\ addr[i] = [t |-> "p2p", v |-> p]
        /\ \A j \in (i + 1)..Len(addr) : addr[j].t # "p2p"

\* p is a relay of addr: its peer id stands right before a circuit marker
IsRelayOf(addr, p) ==
    \E i \in 2..Len(addr) :
        /\ addr[i].t = "p2p-circuit"
        /\ addr[i - 1] = [t |-> "p2p", v |-> p]

\* C15: the prompt is sent only to the target peer, the last peer id of the
\* dialed address, never to the relay; a ConnectionEstablished event for
\* another peer sends nothing and leaves prompt_sent unchanged.
C15_PromptOnlyToTarget ==
    /\ [](\A i \in 1..Len(sent) :
              /\ Len(c_dials) = 1
              /\ IsLastPeerOf(c_dials[1], sent[i].peer)
              /\ ~IsRelayOf(c_dials[1], sent[i].peer)
              /\ sent[i].prompt = "whats 1 + 1")
    /\ [][ ( /\ c_pc = "loop"
             /\ c_event' = "ConnectionEstablished"
             /\ ~IsLastPeerOf(c_dials[1], c_out'[2]) ) =>
                UNCHANGED <<sent, prompt_sent, req>> ]_vars
    /\ [][sent' # sent => /\ c_event' = "ConnectionEstablished"
                          /\ IsLastPeerOf(c_dials[1], c_out'[2])
                          /\ sent'[Len(sent')].peer = c_out'[2]]_vars

\* The target was dialed through a relay; the relay is connected and the
\* prompt went to the target
C15_Witness ==
    /\ Len(sent) = 1
    /\ IsRelayOf(c_dials[1], "P_R")
    /\ conns["P_R"] >= 1
    /\ sent[1].peer = "P_B"

-----------------------------------------------------------------------------
(* Properties of the server *)

\* How many times send_response was called for request id
SendResponseCalls(id) ==
    Cardinality({i \in 1..Len(send_calls) : send_calls[i] = id})

\* Request id is inside its match arm, awaiting call_ollama
Outstanding(id) == cur # None /\ cur[1].id = id

C3_LoopNotStalled ==
    s_pc = "backend" => ENABLED ServerTakesEvent

\* C4 (amended): for a non-2xx backend status the server sends a PromptResponse
\* whose text is "Error calling Ollama: Ollama returned error: <status>", and
\* goes on with the loop.
C4_StatusErrorText ==
    ( /\ last_resp # None
      /\ last_resp[1].reply.sent
      /\ last_resp[1].reply.status \notin 200..299 ) =>
        /\ last_resp[1].response =
              <<"Error calling Ollama: ", "Ollama returned error: ",
                StatusDisplay(last_resp[1].reply.status)>>
        /\ SendResponseCalls(last_resp[1].id) = 1
        /\ s_pc \in {"loop", "backend"}

\* A response to a request whose backend call returned HTTP 500 was sent
C4_Witness ==
    /\ last_resp # None
    /\ last_resp[1].reply.sent
    /\ last_resp[1].reply.status = 500
    /\ s_pc = "loop"

\* C4 (as claimed): the response text is "Error calling Ollama: <status>".
C4_TextIsPrefixAndStatus ==
    ( /\ last_resp # None
      /\ last_resp[1].reply.sent
      /\ last_resp[1].reply.status \notin 200..299 ) =>
        last_resp[1].response =
            <<"Error calling Ollama: ", StatusDisplay(last_resp[1].reply.status)>>

\* C5 (as claimed): a 2xx reply whose body is not JSON, or is JSON without a
\* string "response" field, is answered with an error text and never as a
\* generation result.
C5_MalformedBodyIsError ==
    ( /\ last_resp # None
      /\ last_resp[1].reply.sent
      /\ last_resp[1].reply.status \in 200..299
      /\ last_resp[1].reply.body.t # "json_response_string" ) =>
        /\ ~call_ollama(last_resp[1].prompt, last_resp[1].reply).ok
        /\ Head(last_resp[1].response) = "Error calling Ollama: "

\* C9: once the loop has started the process never exits, whatever event is
\* handled; in the loop the server can accept a PromptRequest, and an accepted
\* request is answered when the backend returns.
C9_ServerKeepsServing ==
    /\ s_event # "none" => s_pc \in {"loop", "backend"}
    /\ (s_pc = "loop" /\ accepted < MaxRequests) =>
          ENABLED (\E p \in PeerIds, q \in Prompts : ServerRequest(p, q))
    /\ s_pc = "backend" =>
          ENABLED (\E reply \in HttpReplies, ok \in BOOLEAN : ServerBackendReturn(reply, ok))

\* After a failed relay listen, a backend failure and a failed send_response,
\* the server is in the loop handling a later event
C9_Witness ==
    /\ s_pc = "loop"
    /\ s_event = "ConnectionClosed"
    /\ \E i \in 1..Len(s_listens) : ~s_listens[i].ok
    /\ last_resp # None
    /\ ~last_resp[1].delivered
    /\ ~last_resp[1].reply.sent

\* C10: with a relay address the node dials the relay at startup and every
\* listen_on call it makes is on that address with the circuit marker appended,
\* never direct; without one it makes exactly one listen_on call, on the
\* direct address at startup, and never dials or listens on a circuit address.
C10_ListenModeExclusive ==
    LET direct == <<[t |-> "ip4", v |-> "0.0.0.0"], [t |-> "tcp", v |-> "0"]>>
        circuit == [t |-> "p2p-circuit", v |-> ""]
    IN  /\ s_arg = None =>
              /\ relay_addr_opt = None
              /\ s_dials = <<>>
              /\ Len(s_listens) = IF s_pc = "start" THEN 0 ELSE 1
              /\ \A i \in 1..Len(s_listens) : s_listens[i].addr = direct
              /\ s_pc \in {"loop", "backend"} => s_listens[1].ok
        /\ s_arg # None =>
              /\ s_pc \in {"loop", "backend"} =>
                    /\ relay_addr_opt # None
                    /\ s_dials = <<relay_addr_opt[1]>>
              /\ relay_addr_opt = None => s_dials = <<>> /\ s_listens = <<>>
              /\ \A i \in 1..Len(s_listens) :
                    /\ s_listens[i].addr = relay_addr_opt[1] \o <<circuit>>
                    /\ s_listens[i].addr # direct

\* In relay mode, a listen on the circuit address failed and a later one succeeded
C10_Witness ==
    /\ s_arg # None
    /\ Len(s_listens) = 2
    /\ ~s_listens[1].ok
    /\ listening_on_relay

\* p is the first peer id that occurs in addr
IsFirstPeerOf(addr, p) ==
    \E i \in 1..Len(addr) :
        /\ addr[i] = [t |-> "p2p", v |-> p]
        /\ \A j \in 1..(i - 1) : addr[j].t # "p2p"

\* A listen_on call made in the loop
ListensInLoop == s_pc # "start" /\ s_listens' # s_listens

\* A ConnectionEstablished event with the peer of the relay address is
\* handled while listening_on_relay is false
RelayConnectedNotListening ==
    /\ s_pc = "loop"
    /\ s_event' = "ConnectionEstablished"
    /\ relay_addr_opt # None
    /\ IsFirstPeerOf(relay_addr_opt[1], s_out'[2])
    /\ ~listening_on_relay

\* C14: in relay mode a listen is attempted only while handling a
\* ConnectionEstablished event whose peer is the peer id of the relay address
\* and only while listening_on_relay is false; the flag becomes true only when
\* that listen call succeeds and is never reset, so at most one relay listen
\* succeeds in a run; after a failed call the flag stays false and the next
\* connection established with the relay peer tries again.
C14_RelayListenOnce ==
    /\ [][ListensInLoop => /\ RelayConnectedNotListening
                           /\ Len(s_listens') = Len(s_listens) + 1
                           /\ listening_on_relay' = s_listens'[Len(s_listens')].ok]_vars
    /\ [][listening_on_relay' # listening_on_relay =>
              /\ listening_on_relay'
              /\ ListensInLoop]_vars
    /\ [][RelayConnectedNotListening => ListensInLoop]_vars
    /\ [](s_arg # None =>
              Cardinality({i \in 1..Len(s_listens) : s_listens[i].ok}) <= 1)

\* A listen on the relay failed, the next one succeeded, and a later connection
\* established with the relay peer started no listen
C14_Witness ==
    /\ listening_on_relay
    /\ Len(s_listens) = 2
    /\ ~s_listens[1].ok
    /\ s_event = "ConnectionEstablished"
    /\ s_out = <<"Connection established", "P_R">>

\* The address of the last listen_on call
LastListenAddr(listens) == listens[Len(listens)].addr

\* a has the form <relay-reachable-address>/p2p/<r>/circuit
HasRelayedForm(a, r) ==
    /\ Len(a) >= 3
    /\ a[Len(a)] = [t |-> "p2p-circuit", v |-> ""]
    /\ a[Len(a) - 1] = [t |-> "p2p", v |-> r]
    /\ \A j \in 1..(Len(a) - 2) : a[j].t \notin {"p2p", "p2p-circuit"}

\* a is a reachable address followed by one peer id and nothing else
EndsWithItsOnlyPeer(a) ==
    /\ Len(a) >= 2
    /\ a[Len(a)].t = "p2p"
    /\ \A j \in 1..(Len(a) - 1) : a[j].t \notin {"p2p", "p2p-circuit"}

\* C16 (amended): in relay mode every address passed to listen_on is the
\* configured relay address with the circuit marker appended as its last
\* component, and the first peer id of the configured address is the peer the
\* connection was just established with; the address has the form
\* <relay-reachable-address>/p2p/<that peer>/circuit whenever the configured
\* address ends with its only peer id; with no peer id in the configured
\* address no listen is ever started.
C16_ListenAddrIsRelayPlusCircuit ==
    /\ [](s_arg # None =>
              \A i \in 1..Len(s_listens) :
                  LET a == s_listens[i].addr
                  IN  /\ a[Len(a)] = [t |-> "p2p-circuit", v |-> ""]
                      /\ SubSeq(a, 1, Len(a) - 1) = relay_addr_opt[1]
                      /\ \E j \in 1..Len(relay_addr_opt[1]) :
                             relay_addr_opt[1][j].t = "p2p")
    /\ [][ListensInLoop =>
              /\ IsFirstPeerOf(LastListenAddr(s_listens'), s_out'[2])
              /\ EndsWithItsOnlyPeer(relay_addr_opt[1]) =>
                     HasRelayedForm(LastListenAddr(s_listens'), s_out'[2])]_vars

\* The relay address ends with its only peer id and the node listens through it
C16_Witness ==
    /\ listening_on_relay
    /\ EndsWithItsOnlyPeer(relay_addr_opt[1])
    /\ HasRelayedForm(LastListenAddr(s_listens), "P_R")

\* C16 (as claimed): every address the node listens on has the form
\* <relay-reachable-address>/p2p/<relay-PeerIdentifier>/circuit, with the peer
\* the connection was just established with.
C16_AlwaysRelayedForm ==
    [][ListensInLoop => HasRelayedForm(LastListenAddr(s_listens'), s_out'[2])]_vars

\* C18: accepted PromptRequests are handled one at a time: at most one
\* backend call is outstanding, no swarm event is taken while it is, and the
\* responses are sent in the order in which the requests were taken.
C18_OneAtATime ==
    /\ accepted - Len(send_calls) \in {0, 1}
    /\ accepted - Len(send_calls) = 1 <=> s_pc = "backend"
    /\ send_calls = [i \in 1..Len(send_calls) |-> i]
    /\ s_pc = "backend" => ~ENABLED ServerTakesEvent

\* Two requests were taken and answered, one after the other
C18_Witness ==
    /\ accepted = 2
    /\ send_calls = <<1, 2>>
    /\ s_pc = "loop"

-----------------------------------------------------------------------------
(* Properties of both loops *)

\* C12 (as claimed): in each role's loop every Identify, Ping and Relay event
\* produces an output line; none of them is consumed silently.
C12_EventsSurfaced ==
    /\ s_event \in {"Identify", "Ping", "Relay"} => s_out # <<>>
    /\ c_event \in {"Identify", "Ping", "Relay"} => c_out # <<>>

-----------------------------------------------------------------------------
(* Properties of the two programs run together *)

\* Scenario 1: the server listens directly and the client dials its address,
\* which ends in /p2p/P_B
DirectCase ==
    /\ s_arg = None
    /\ target_addr # None
    /\ ~HasCircuit(target_addr[1])
    /\ target_peer_id = Some(ServerPeerId)

\* The result of the backend for the request the server answered last
BackendResult == call_ollama(last_resp[1].prompt, last_resp[1].reply)

\* C11: in the direct case, once the connection to B is established A has
\* sent its one PromptRequest{prompt: p}; the prompt B hands to its backend is
\* exactly p; the response B puts on the wire carries, when the backend
\* returned a text r, exactly r; A can take that response while its request
\* is pending; and when A has exited successfully it has received the
\* response B built for A's request, which is r when the backend returned r.
C11_EndToEndDirect ==
    DirectCase =>
        /\ conns[ServerPeerId] > 0 =>
              sent = <<[peer |-> ServerPeerId, prompt |-> ClientPrompt]>>
        /\ wire_req # None => DecodeRequest(wire_req[1]) = Ok(PromptRequest(sent[1].prompt))
        /\ cur # None => cur[1].prompt = sent[1].prompt /\ cur[1].peer = ClientPeerId
        /\ wire_resp # None =>
              /\ last_resp # None
              /\ last_resp[1].prompt = sent[1].prompt
              /\ BackendResult.ok =>
                    DecodeResponse(wire_resp[1]) = Ok(PromptResponse(BackendResult.v))
        /\ (wire_resp # None /\ c_pc = "loop" /\ req = "pending") => ENABLED E2EClientResponse
        /\ c_pc = "exit_ok" =>
              /\ last_resp # None
              /\ last_resp[1].delivered
              /\ last_resp[1].prompt = sent[1].prompt
              /\ received = Some(last_resp[1].response)
              /\ BackendResult.ok => received = Some(BackendResult.v)

\* The client has exited successfully in the direct case with the text "2"
\* the backend returned
C11_Witness ==
    /\ DirectCase
    /\ c_pc = "exit_ok"
    /\ BackendResult = Ok(<<"2">>)
    /\ received = Some(<<"2">>)

\* The server's address argument does not parse
ServerArgMalformed == s_arg # None /\ ~ParseMultiaddr(s_arg[1]).ok

\* The client's address argument is missing, does not parse, or has no peer id
ClientArgBad ==
    \/ c_arg = None
    \/ ~ParseMultiaddr(c_arg[1]).ok
    \/ LastP2p(ParseMultiaddr(c_arg[1]).addr) = None

\* C13: a server whose address does not parse, and a client whose address is
\* missing, does not parse or has no peer id, has issued no dial and no listen
\* and is at the start of main or has ended with an error; and every address
\* dialed or listened on is a parsed address.
C13_MalformedFailsBeforeNetwork ==
    /\ ServerArgMalformed =>
          s_dials = <<>> /\ s_listens = <<>> /\ s_pc \in {"start", "exit_err"}
    /\ ClientArgBad =>
          c_dials = <<>> /\ sent = <<>> /\ c_pc \in {"start", "exit_err"}
    /\ \A i \in 1..Len(s_dials) :
          /\ s_arg # None
          /\ ParseMultiaddr(s_arg[1]).ok
          /\ s_dials[i] = ParseMultiaddr(s_arg[1]).addr
    /\ \A i \in 1..Len(s_listens) :
          \/ s_arg = None /\ s_listens[i].addr = ParseMultiaddr(DirectListenStr).addr
          \/ /\ s_arg # None
             /\ ParseMultiaddr(s_arg[1]).ok
             /\ s_listens[i].addr = ParseMultiaddr(s_arg[1]).addr \o <<P2pCircuit>>
    /\ \A i \in 1..Len(c_dials) :
          /\ c_arg # None
          /\ ParseMultiaddr(c_arg[1]).ok
          /\ c_dials[i] = ParseMultiaddr(c_arg[1]).addr

\* Both programs were given an address that does not parse and have ended
\* with the error
C13_Witness ==
    /\ ServerArgMalformed
    /\ c_arg # None
    /\ ~ParseMultiaddr(c_arg[1]).ok
    /\ s_pc = "exit_err"
    /\ c_pc = "exit_err"

\* This step is the server's (the client's) Ping or Relay arm
ServerHandlesPingOrRelay ==
    /\ s_event' \in {"Ping", "Relay"}
    /\ <<s_event, s_out>>' # <<s_event, s_out>>
ClientHandlesPingOrRelay ==
    /\ c_event' \in {"Ping", "Relay"}
    /\ <<c_event, c_out>>' # <<c_event, c_out>>

\* C17: a step that handles a Ping event (a success or a failure) or a Relay
\* event changes nothing but what is reported: in the server
\* listening_on_relay, the dials, the listens, the requests and the responses
\* stay as they are, in the client prompt_sent, the connections, the request
\* and the response stay as they are, nothing goes on the wire, and the loop
\* goes on.
C17_PingRelayOnlyReport ==
    [][ /\ ServerHandlesPingOrRelay =>
              /\ UNCHANGED <<s_arg, relay_addr_opt, listening_on_relay, s_dials,
                             s_listens, accepted, cur, send_calls, last_resp>>
              /\ UNCHANGED <<c_vars, n_vars>>
              /\ s_pc = "loop"
              /\ s_pc' = "loop"
        /\ ClientHandlesPingOrRelay =>
              /\ UNCHANGED <<c_arg, target_addr, target_peer_id, prompt_sent, c_dials,
                             sent, req, received, conns>>
              /\ UNCHANGED <<s_vars, n_vars>>
              /\ c_pc = "loop"
              /\ c_pc' = "loop"
      ]_vars

\* The client, connected to the server and with its prompt sent, has handled
\* a failed ping and is still in its loop waiting for the response
C17_Witness ==
    /\ c_event = "Ping"
    /\ c_out = <<"Ping event", "Err">>
    /\ c_pc = "loop"
    /\ prompt_sent
    /\ req = "pending"
    /\ conns[ServerPeerId] > 0
    /\ s_pc \in {"loop", "backend"}

====
